---- MODULE Spec2Model ----
(***************************************************************************)
(* Model of the HaiBlock Python SDK client (haiblock/client.py,            *)
(* haiblock/models.py, haiblock/exceptions.py).                            *)
(*                                                                         *)
(* The client is a thin wrapper: a constructor that fixes the session      *)
(* configuration, a private transport (_make_request) that turns HTTP      *)
(* failures into typed exceptions, and one facade method per endpoint.     *)
(* Every facade call is one atomic action: it draws the server's answer    *)
(* (a response with a status and a body, or a network failure) and         *)
(* records the request sent and the outcome (value returned or exception   *)
(* raised).                                                                *)
(*                                                                         *)
(* Strings are modelled as sequences of tokens where the code builds them  *)
(* by formatting (URLs, header values, exception messages); "s contains t" *)
(* is then token membership.                                               *)
(***************************************************************************)
EXTENDS Integers, Sequences, FiniteSets, TLC

VARIABLES environ, build, fs, client, call, prev

vars == <<environ, build, fs, client, call, prev>>

(***************************************************************************)
(* Bounds                                                                  *)
(***************************************************************************)
\* longest "items" array a list response carries
MaxItems == 2

(***************************************************************************)
(* Python values                                                           *)
(***************************************************************************)
\* Python's None, where a string is expected
None == "<None>"

\* APIError.status_code when the constructor's default (None) is kept
NoStatus == 0

\* bool(x) for x a str or None
Truthy(x) == x # None /\ x # ""

\* a or b
PyOr(a, b) == IF Truthy(a) THEN a ELSE b

\* os.getenv(name, default)
GetEnv(env, name, default) == IF env[name] # None THEN env[name] ELSE default

(***************************************************************************)
(* JSON values as they come off the wire.  t is the JSON type, s the text  *)
(* of the token, n its numeric value (per-mille for floats), items the     *)
(* elements when the value is an array of objects.                         *)
(***************************************************************************)
JStr(s) == [t |-> "str", s |-> s, n |-> 0, items |-> <<>>]
JInt(s, n) == [t |-> "int", s |-> s, n |-> n, items |-> <<>>]
JFloat(s, n) == [t |-> "float", s |-> s, n |-> n, items |-> <<>>]
JBool(s) == [t |-> "bool", s |-> s, n |-> 0, items |-> <<>>]
JDict(s) == [t |-> "dict", s |-> s, n |-> 0, items |-> <<>>]
JList(s) == [t |-> "list", s |-> s, n |-> 0, items |-> <<>>]
JArray(objs) == [t |-> "list", s |-> "[...]", n |-> Len(objs), items |-> objs]
JNull == [t |-> "null", s |-> "null", n |-> 0, items |-> <<>>]

\* the JSON object {}
EmptyObj == [k \in {} |-> JNull]

(***************************************************************************)
(* haiblock/models.py: the pydantic models.  A model is its field table:   *)
(* the declared type of every field and which fields have no default.      *)
(***************************************************************************)
\* class Content(BaseModel)
ContentFields ==
    [id |-> "str", user_id |-> "str", filename |-> "str",
     original_text |-> "str", transformed_text |-> "str",
     upload_date |-> "str", last_updated |-> "str", status |-> "str",
     file_size |-> "int", file_type |-> "str", s3_key |-> "str",
     upload_metadata |-> "dict", validation_checks |-> "dict",
     upload_completed |-> "str", actual_file_size |-> "int"]

ContentRequired ==
    {"id", "user_id", "filename", "original_text", "upload_date",
     "last_updated", "status", "file_size", "file_type", "s3_key"}

\* class Submission(BaseModel)
SubmissionFields ==
    [id |-> "str", content_id |-> "str", provider |-> "str",
     status |-> "str", submitted_at |-> "str", response_data |-> "dict",
     cost_estimate |-> "float", error_message |-> "str"]

SubmissionRequired == {"id", "content_id", "provider", "status", "submitted_at"}

\* class TransformationResult(BaseModel)
TransformationResultFields ==
    [success |-> "bool", transformed_text |-> "str", chunks |-> "list",
     company_info |-> "dict", faqs |-> "list", error |-> "str"]

TransformationResultRequired == {"success"}

\* class AnalyticsData(BaseModel)
AnalyticsDataFields ==
    [total_content |-> "int", total_submissions |-> "int",
     successful_submissions |-> "int", failed_submissions |-> "int",
     total_costs |-> "float", recent_activity |-> "list",
     content_status_breakdown |-> "dict",
     submission_provider_breakdown |-> "dict", monthly_trends |-> "dict",
     average_cost_per_submission |-> "float", success_rate |-> "float"]

AnalyticsDataRequired == DOMAIN AnalyticsDataFields

Models == {"Content", "Submission", "TransformationResult", "AnalyticsData"}

Fields(cls) ==
    CASE cls = "Content" -> ContentFields
      [] cls = "Submission" -> SubmissionFields
      [] cls = "TransformationResult" -> TransformationResultFields
      [] cls = "AnalyticsData" -> AnalyticsDataFields

Required(cls) ==
    CASE cls = "Content" -> ContentRequired
      [] cls = "Submission" -> SubmissionRequired
      [] cls = "TransformationResult" -> TransformationResultRequired
      [] cls = "AnalyticsData" -> AnalyticsDataRequired

\* The values the comments of models.py list for the two status fields
ContentStatuses == {"uploaded", "processing", "transformed", "submitted", "error"}

SubmissionStatuses == {"pending", "submitted", "success", "error"}

(***************************************************************************)
(* pydantic's field validation, for the JSON types above.  pyd is the      *)
(* major version of pydantic installed (setup.py allows 1.8 and later):    *)
(* version 1 coerces numbers to str and truncates floats to int, version 2 *)
(* does neither.  A field declared "status: str" accepts every string.     *)
(***************************************************************************)
FieldAccepts(ty, required, v, pyd) ==
    CASE v.t = "null" -> ~required
      [] ty = "str" -> v.t = "str" \/ (pyd = 1 /\ v.t \in {"int", "float", "bool"})
      [] ty = "int" -> \/ v.t \in {"int", "bool"}
                       \/ v.t = "float" /\ (pyd = 1 \/ v.n % 1000 = 0)
      [] ty = "float" -> v.t \in {"int", "float", "bool"}
      [] ty = "bool" -> v.t = "bool" \/ (v.t = "int" /\ v.n \in {0, 1})
      [] ty = "dict" -> v.t = "dict"
      [] ty = "list" -> v.t = "list"

\* the value the field holds after validation
FieldValue(ty, v) ==
    CASE v.t = "null" -> v
      [] ty = v.t -> v
      [] ty = "str" -> JStr(v.s)
      [] ty = "int" /\ v.t = "float" -> JInt(v.s, v.n \div 1000)
      [] ty = "int" -> JInt(v.s, v.n)
      [] ty = "float" /\ v.t = "int" -> JFloat(v.s, v.n * 1000)
      [] ty = "float" -> JFloat(v.s, v.n)
      [] ty = "bool" -> JBool(IF v.n = 1 THEN "true" ELSE "false")
      [] OTHER -> v

\* Model(**data) succeeds: every required field is there and every field
\* that is there validates (keys that are not fields are ignored)
ModelValid(cls, data, pyd) ==
    /\ Required(cls) \subseteq DOMAIN data
    /\ \A f \in DOMAIN data \cap DOMAIN Fields(cls) :
          FieldAccepts(Fields(cls)[f], f \in Required(cls), data[f], pyd)

\* (variant: AnalyticsData works success_rate out from the submission counts)
ModelBuildRecomputing(cls, data) ==
    LET built == [f \in DOMAIN Fields(cls) |->
                    IF f \in DOMAIN data THEN FieldValue(Fields(cls)[f], data[f])
                    ELSE JNull]
    IN  IF cls = "AnalyticsData" /\ built.total_submissions.n > 0
        THEN [built EXCEPT !.success_rate =
                 JFloat("computed", (built.successful_submissions.n * 1000)
                                       \div built.total_submissions.n)]
        ELSE built

\* the instance Model(**data) builds: fields left out take the default None
ModelBuild(cls, data) ==
    [f \in DOMAIN Fields(cls) |->
        IF f \in DOMAIN data THEN FieldValue(Fields(cls)[f], data[f]) ELSE JNull]

(***************************************************************************)
(* What the server can answer.  The JSON documents are the ones of         *)
(* tests/test_client.py and variations of them.                            *)
(***************************************************************************)
\* mock_response of test_get_content_success, with the given status
ContentWire(status) ==
    [id |-> JStr("content-1"), user_id |-> JStr("user-123"),
     filename |-> JStr("test.txt"), original_text |-> JStr("test content"),
     upload_date |-> JStr("2025-01-01T00:00:00Z"),
     last_updated |-> JStr("2025-01-01T00:00:00Z"),
     status |-> JStr(status), file_size |-> JInt("1000", 1000),
     file_type |-> JStr("text/plain"), s3_key |-> JStr("uploads/test.txt")]

\* the same document without a key
Without(obj, key) == [f \in DOMAIN obj \ {key} |-> obj[f]]

\* the same document with one value replaced
With(obj, key, v) == [f \in DOMAIN obj |-> IF f = key THEN v ELSE obj[f]]

\* mock_response of test_submit_to_bedrock_success, with the given status
SubmissionWire(status) ==
    [id |-> JStr("submission-123"), content_id |-> JStr("content-1"),
     provider |-> JStr("bedrock"), status |-> JStr(status),
     submitted_at |-> JStr("2025-01-01T00:00:00Z")]

\* a transformation the server could not do
TransformFailedWire == [success |-> JBool("false"), error |-> JStr("boom")]

\* mock_response of test_get_analytics_success, with the given success_rate
AnalyticsWire(rate) ==
    [total_content |-> JInt("5", 5), total_submissions |-> JInt("10", 10),
     successful_submissions |-> JInt("8", 8),
     failed_submissions |-> JInt("2", 2),
     total_costs |-> JFloat("1.25", 1250), recent_activity |-> JList("[]"),
     content_status_breakdown |-> JDict("{uploaded:3,processed:2}"),
     submission_provider_breakdown |-> JDict("{bedrock:10}"),
     monthly_trends |-> JDict("{}"),
     average_cost_per_submission |-> JFloat("0.125", 125),
     success_rate |-> rate]

\* the objects an "items" array is made of
ItemObjects ==
    {ContentWire("uploaded"), ContentWire("processed"), SubmissionWire("pending")}

ItemSeqs == UNION {[1..n -> ItemObjects] : n \in 0..MaxItems}

\* the JSON objects a response body can be
WireObjects ==
    {EmptyObj,
     ContentWire("uploaded"), ContentWire("processed"),
     Without(ContentWire("uploaded"), "s3_key"),
     With(ContentWire("uploaded"), "id", JInt("7", 7)),
     SubmissionWire("pending"), SubmissionWire("queued"),
     TransformFailedWire,
     AnalyticsWire(JFloat("0.8", 800)), AnalyticsWire(JFloat("0.5", 500))}
    \cup {[items |-> JArray(q)] : q \in ItemSeqs}

\* A response body: its raw text (response.text) and what it is as JSON
EmptyBody == [kind |-> "empty", text |-> "", data |-> EmptyObj]

TextBody(text) == [kind |-> "text", text |-> text, data |-> EmptyObj]

ObjectBody(obj) == [kind |-> "object", text |-> "{...}", data |-> obj]

ArrayBody == [kind |-> "array", text |-> "[]", data |-> EmptyObj]

Bodies ==
    {EmptyBody, TextBody("Internal Server Error"), TextBody("try again later"),
     ArrayBody}
    \cup {ObjectBody(o) : o \in WireObjects}

\* the statuses the server answers with
Statuses == {101, 200, 201, 204, 300, 400, 401, 404, 500}

\* the reason phrase of a status
Reason(status) ==
    CASE status = 101 -> "Switching Protocols"
      [] status = 200 -> "OK"
      [] status = 201 -> "Created"
      [] status = 204 -> "No Content"
      [] status = 300 -> "Multiple Choices"
      [] status = 400 -> "Bad Request"
      [] status = 401 -> "Unauthorized"
      [] status = 404 -> "Not Found"
      [] status = 500 -> "Internal Server Error"

\* str(status)
StatusText(status) ==
    CASE status = 101 -> "101"
      [] status = 200 -> "200"
      [] status = 201 -> "201"
      [] status = 204 -> "204"
      [] status = 300 -> "300"
      [] status = 400 -> "400"
      [] status = 401 -> "401"
      [] status = 404 -> "404"
      [] status = 500 -> "500"

\* a response that arrived
Response(status, body) ==
    [net |-> "ok", status_code |-> status, reason |-> Reason(status),
     body |-> body]

\* no response: the connection failed (requests raises ConnectionError)
NetworkFailure ==
    [net |-> "fail", status_code |-> 0, reason |-> "", body |-> EmptyBody]

\* no request was made
NoResponse ==
    [net |-> "none", status_code |-> 0, reason |-> "", body |-> EmptyBody]

Responses ==
    {Response(st, b) : st \in Statuses, b \in Bodies} \cup {NetworkFailure}

(***************************************************************************)
(* The outcome of a call: a value returned or an exception raised.         *)
(***************************************************************************)
NoValue == [t |-> "none", cls |-> "", data |-> EmptyObj, list |-> <<>>, b |-> FALSE]

\* a dict, as response.json() returns it
DictValue(d) == [NoValue EXCEPT !.t = "dict", !.data = d]

\* a list, as response.json() returns it for a JSON array
ListValue == [NoValue EXCEPT !.t = "list"]

\* an instance of a model
ModelValue(cls, inst) == [NoValue EXCEPT !.t = "model", !.cls = cls, !.data = inst]

\* a list of instances of a model
ModelsValue(cls, insts) == [NoValue EXCEPT !.t = "models", !.cls = cls, !.list = insts]

BoolValue(b) == [NoValue EXCEPT !.t = "bool", !.b = b]

Returns(v) ==
    [kind |-> "return", exc |-> "", status_code |-> NoStatus, msg |-> <<>>,
     response |-> NoResponse, value |-> v]

\* haiblock/exceptions.py: an exception with a message; also the other
\* exceptions that reach the caller (pydantic's, requests', the built-in ones)
Raises(exc, msg) ==
    [kind |-> "raise", exc |-> exc, status_code |-> NoStatus, msg |-> msg,
     response |-> NoResponse, value |-> NoValue]

\* APIError(message, status_code=None, response=None)
APIError(msg, status_code, response) ==
    [Raises("APIError", msg) EXCEPT !.status_code = status_code,
                                    !.response = response]

\* the classes of haiblock/exceptions.py
HaiBlockErrors ==
    {"HaiBlockError", "AuthenticationError", "APIError", "ValidationError",
     "ContentNotFoundError", "TransformationError"}

\* text is part of the message
Includes(msg, text) == text = "" \/ \E i \in DOMAIN msg : msg[i] = text

(***************************************************************************)
(* HaiBlockClient.__init__                                                 *)
(***************************************************************************)
DefaultApiUrl == "https://api.haiblock.com"

\* requests.Session().headers before the update
SessionDefaultHeaders ==
    [k \in {"User-Agent", "Accept-Encoding", "Accept", "Connection"} |->
        CASE k = "User-Agent" -> <<"python-requests">>
          [] k = "Accept-Encoding" -> <<"gzip, deflate">>
          [] k = "Accept" -> <<"*/*">>
          [] k = "Connection" -> <<"keep-alive">>]

\* headers.update(new)
HeadersUpdate(headers, new) ==
    [k \in DOMAIN headers \cup DOMAIN new |->
        IF k \in DOMAIN new THEN new[k] ELSE headers[k]]

NoHeaders == [k \in {} |-> <<>>]

\* no client object
NoClient ==
    [state |-> "none", api_url |-> None, auth_token |-> None,
     headers |-> NoHeaders]

\* self.api_url
InitApiUrl(env, api_url) == PyOr(api_url, GetEnv(env, "HAIBLOCK_API_URL", DefaultApiUrl))

\* (variant: the environment variable is looked at first)
InitAuthTokenEnvFirst(env, auth_token) ==
    PyOr(GetEnv(env, "HAIBLOCK_AUTH_TOKEN", None), auth_token)

\* self.auth_token
InitAuthToken(env, auth_token) == PyOr(auth_token, GetEnv(env, "HAIBLOCK_AUTH_TOKEN", None))

\* the object __init__ leaves when it does not raise
InitClient(env, api_url, auth_token) ==
    [state |-> "ready",
     api_url |-> InitApiUrl(env, api_url),
     auth_token |-> InitAuthToken(env, auth_token),
     headers |-> HeadersUpdate(SessionDefaultHeaders,
        [k \in {"Authorization", "Content-Type", "User-Agent"} |->
            CASE k = "Authorization" -> <<"Bearer ", InitAuthToken(env, auth_token)>>
              [] k = "Content-Type" -> <<"application/json">>
              [] k = "User-Agent" -> <<"haiblock-python-sdk/0.1.0">>])]

\* (variant: the check reads self.api_url instead of self.auth_token)
InitRaisesChecksUrl(env, auth_token) == ~Truthy(InitApiUrl(env, None))

\* __init__ raises
InitRaises(env, auth_token) == ~Truthy(InitAuthToken(env, auth_token))

(***************************************************************************)
(* HaiBlockClient._make_request                                            *)
(***************************************************************************)
\* endpoint.lstrip('/')
RECURSIVE LStrip(_)
LStrip(endpoint) ==
    IF endpoint # <<>> /\ Head(endpoint) = "/" THEN LStrip(Tail(endpoint))
    ELSE endpoint

\* url = f"{self.api_url}/{endpoint.lstrip('/')}"
RequestUrl(c, endpoint) == <<c.api_url, "/">> \o LStrip(endpoint)

NoParams == [k \in {} |-> 0]

\* the request self.session.request(method, url, **kwargs) sends
SessionRequest(c, method, endpoint, params) ==
    [via |-> "session", method |-> method, url |-> RequestUrl(c, endpoint),
     headers |-> c.headers, params |-> params, multipart |-> FALSE,
     data |-> None]

\* response.raise_for_status() raises HTTPError
RaiseForStatus(resp) == resp.status_code >= 400 /\ resp.status_code < 600

\* str(e) of that HTTPError
HTTPErrorText(resp, url) ==
    <<StatusText(resp.status_code),
      IF resp.status_code < 500 THEN " Client Error: " ELSE " Server Error: ",
      resp.reason, " for url: ">> \o url

\* response.json() returns
JsonDecodes(resp) == resp.body.kind \in {"object", "array"}

\* what response.json() returns
JsonValue(resp) ==
    IF resp.body.kind = "object" THEN DictValue(resp.body.data) ELSE ListValue

\* (variant: the except clause without its 404 branch)
HTTPErrorOutcomeNo404(resp, url) ==
    IF resp.status_code = 401
    THEN Raises("AuthenticationError", <<"Invalid or expired authentication token">>)
    ELSE APIError(<<"API request failed: ">> \o HTTPErrorText(resp, url),
                  resp.status_code, resp)

\* the except clauses of _make_request for an HTTPError
HTTPErrorOutcome(resp, url) ==
    IF resp.status_code = 401
    THEN Raises("AuthenticationError", <<"Invalid or expired authentication token">>)
    ELSE IF resp.status_code = 404
    THEN Raises("ContentNotFoundError", <<"Requested resource not found">>)
    ELSE APIError(<<"API request failed: ">> \o HTTPErrorText(resp, url),
                  resp.status_code, resp)

\* _make_request(method, endpoint, **kwargs) when the server answers resp.
\* A body that is not JSON makes response.json() raise: an exception that
\* derives from RequestException from requests 2.27 on (caught by the last
\* except clause), a plain ValueError before (caught by none).
MakeRequestSticky(c, bld, endpoint, resp) ==
    IF call.outcome.exc = "AuthenticationError"
    THEN Raises("AuthenticationError", <<"Invalid or expired authentication token">>)
    ELSE IF resp.net = "fail"
    THEN APIError(<<"Request failed: ", "connection failed">>, NoStatus, NoResponse)
    ELSE IF RaiseForStatus(resp)
    THEN HTTPErrorOutcome(resp, RequestUrl(c, endpoint))
    ELSE IF JsonDecodes(resp)
    THEN Returns(JsonValue(resp))
    ELSE IF bld.requests_json = "RequestException"
    THEN APIError(<<"Request failed: ", "Expecting value">>, NoStatus, NoResponse)
    ELSE Raises("json.JSONDecodeError", <<"Expecting value">>)

MakeRequest(c, bld, endpoint, resp) ==
    IF resp.net = "fail"
    THEN APIError(<<"Request failed: ", "connection failed">>, NoStatus, NoResponse)
    ELSE IF RaiseForStatus(resp)
    THEN HTTPErrorOutcome(resp, RequestUrl(c, endpoint))
    ELSE IF JsonDecodes(resp)
    THEN Returns(JsonValue(resp))
    ELSE IF bld.requests_json = "RequestException"
    THEN APIError(<<"Request failed: ", "Expecting value">>, NoStatus, NoResponse)
    ELSE Raises("json.JSONDecodeError", <<"Expecting value">>)

(***************************************************************************)
(* The facade methods, as functions of the server's answer                 *)
(***************************************************************************)
\* Model(**data) for data the value _make_request returned
Construct(cls, v, pyd) ==
    IF v.t # "dict"
    THEN Raises("TypeError", <<"argument after ** must be a mapping">>)
    ELSE IF ModelValid(cls, v.data, pyd)
    THEN Returns(ModelValue(cls, ModelBuild(cls, v.data)))
    ELSE Raises("pydantic.ValidationError", <<"validation error for ", cls>>)

\* (variant: data["items"] in place of data.get("items", []))
ConstructItemsRequiresKey(cls, v, pyd) ==
    IF v.t # "dict"
    THEN Raises("TypeError", <<"list indices must be integers">>)
    ELSE IF "items" \notin DOMAIN v.data
    THEN Raises("KeyError", <<"items">>)
    ELSE IF v.data["items"].t # "list"
    THEN Raises("TypeError", <<"object is not iterable">>)
    ELSE LET items == v.data["items"].items IN
         IF \A i \in DOMAIN items : ModelValid(cls, items[i], pyd)
         THEN Returns(ModelsValue(cls,
                  [i \in DOMAIN items |-> ModelBuild(cls, items[i])]))
         ELSE Raises("pydantic.ValidationError", <<"validation error for ", cls>>)

\* [Model(**item) for item in data.get("items", [])]
ConstructItems(cls, v, pyd) ==
    IF v.t # "dict"
    THEN Raises("AttributeError", <<"'list' object has no attribute 'get'">>)
    ELSE IF "items" \notin DOMAIN v.data
    THEN Returns(ModelsValue(cls, <<>>))
    ELSE IF v.data["items"].t # "list"
    THEN Raises("TypeError", <<"object is not iterable">>)
    ELSE LET items == v.data["items"].items IN
         IF \A i \in DOMAIN items : ModelValid(cls, items[i], pyd)
         THEN Returns(ModelsValue(cls,
                  [i \in DOMAIN items |-> ModelBuild(cls, items[i])]))
         ELSE Raises("pydantic.ValidationError", <<"validation error for ", cls>>)

\* data = self._make_request(...); return Model(**data)
RequestModel(cls, c, bld, endpoint, resp) ==
    LET r == MakeRequest(c, bld, endpoint, resp) IN
    IF r.kind = "raise" THEN r ELSE Construct(cls, r.value, bld.pydantic)

\* data = self._make_request(...); return [Model(**item) for item in ...]
RequestModels(cls, c, bld, endpoint, resp) ==
    LET r == MakeRequest(c, bld, endpoint, resp) IN
    IF r.kind = "raise" THEN r ELSE ConstructItems(cls, r.value, bld.pydantic)

\* the value of an optional argument: <<>> when the caller left it out
Default(opt, d) == IF opt = <<>> THEN d ELSE opt[1]

get_content_endpoint(content_id) == <<"/", "content", "/", content_id>>

get_content(c, bld, content_id, resp) ==
    RequestModel("Content", c, bld, get_content_endpoint(content_id), resp)

list_content_endpoint == <<"/", "content">>

list_content_params(limit, offset) ==
    [limit |-> Default(limit, 50), offset |-> Default(offset, 0)]

list_content(c, bld, resp) ==
    RequestModels("Content", c, bld, list_content_endpoint, resp)

transform_content_endpoint(content_id) ==
    <<"/", "content", "/", content_id, "/", "transform">>

\* (variant: a result with success false is turned into TransformationError)
transform_content_raising(c, bld, content_id, resp) ==
    LET r == RequestModel("TransformationResult", c, bld,
                          <<"/", "content", "/", content_id, "/", "transform">>,
                          resp)
    IN  IF r.kind = "return" /\ r.value.data.success.s = "false"
        THEN Raises("TransformationError", <<r.value.data.error.s>>)
        ELSE r

transform_content(c, bld, content_id, resp) ==
    RequestModel("TransformationResult", c, bld,
                 transform_content_endpoint(content_id), resp)

\* (variant: the provider argument is not used in the path)
submit_to_model_endpoint_fixed(content_id, provider) ==
    <<"/", "content", "/", content_id, "/", "submit", "/", "bedrock">>

submit_to_model_endpoint(content_id, provider) ==
    <<"/", "content", "/", content_id, "/", "submit", "/",
      Default(provider, "bedrock")>>

submit_to_model(c, bld, content_id, provider, resp) ==
    RequestModel("Submission", c, bld,
                 submit_to_model_endpoint(content_id, provider), resp)

get_submission_endpoint(submission_id) == <<"/", "submissions", "/", submission_id>>

get_submission(c, bld, submission_id, resp) ==
    RequestModel("Submission", c, bld, get_submission_endpoint(submission_id), resp)

list_submissions_endpoint == <<"/", "submissions">>

\* (variant: content_id is sent whenever the caller gave one, empty or not)
list_submissions_params_given(content_id, limit, offset) ==
    IF content_id # None
    THEN [limit |-> Default(limit, 50), offset |-> Default(offset, 0),
          content_id |-> content_id]
    ELSE [limit |-> Default(limit, 50), offset |-> Default(offset, 0)]

list_submissions_params(content_id, limit, offset) ==
    IF Truthy(content_id)
    THEN [limit |-> Default(limit, 50), offset |-> Default(offset, 0),
          content_id |-> content_id]
    ELSE [limit |-> Default(limit, 50), offset |-> Default(offset, 0)]

list_submissions(c, bld, resp) ==
    RequestModels("Submission", c, bld, list_submissions_endpoint, resp)

get_analytics_endpoint == <<"/", "analytics">>

get_analytics(c, bld, resp) ==
    RequestModel("AnalyticsData", c, bld, get_analytics_endpoint, resp)

delete_content_endpoint(content_id) == <<"/", "content", "/", content_id>>

delete_content(c, bld, content_id, resp) ==
    LET r == MakeRequest(c, bld, delete_content_endpoint(content_id), resp) IN
    IF r.kind = "raise" THEN r ELSE Returns(BoolValue(TRUE))

\* bool(metadata) for metadata a dict or None
MetadataTruthy(metadata) == metadata \notin {None, "{}"}

\* (variant: the session's headers are passed on as they are)
upload_file_request_all_headers(c, metadata) ==
    [via |-> "requests.post", method |-> "POST",
     url |-> <<c.api_url, "/", "upload">>,
     headers |-> c.headers,
     params |-> NoParams, multipart |-> TRUE,
     data |-> IF MetadataTruthy(metadata) THEN metadata ELSE None]

\* (variant: Content-Type is popped from the session's own headers)
upload_file_session_popping(c) ==
    [c EXCEPT !.headers = [k \in DOMAIN c.headers \ {"Content-Type"} |-> c.headers[k]]]

\* the client after upload_file has built its headers: the comprehension
\* makes a new dict, self.session.headers is only read
upload_file_session(c) == c

\* the request requests.post(f"{self.api_url}/upload", files=, data=, headers=)
\* sends: the session's headers but Content-Type, a multipart body
upload_file_request(c, metadata) ==
    [via |-> "requests.post", method |-> "POST",
     url |-> <<c.api_url, "/", "upload">>,
     headers |-> [k \in DOMAIN c.headers \ {"Content-Type"} |-> c.headers[k]],
     params |-> NoParams, multipart |-> TRUE,
     data |-> IF MetadataTruthy(metadata) THEN metadata ELSE None]

\* (variant: every 2xx status counts as a successful upload)
upload_file_any_2xx(c, bld, resp) ==
    IF resp.net = "fail"
    THEN Raises("requests.ConnectionError", <<"connection failed">>)
    ELSE IF resp.status_code < 200 \/ resp.status_code > 299
    THEN APIError(<<"Upload failed: ", resp.body.text>>, resp.status_code, resp)
    ELSE IF JsonDecodes(resp)
    THEN Construct("Content", JsonValue(resp), bld.pydantic)
    ELSE IF bld.requests_json = "RequestException"
    THEN Raises("requests.JSONDecodeError", <<"Expecting value">>)
    ELSE Raises("json.JSONDecodeError", <<"Expecting value">>)

\* upload_file(file_path, metadata) for a file that exists.  Nothing is
\* caught here: what requests.post or response.json() raise reaches the
\* caller as it is.
upload_file(c, bld, resp) ==
    IF resp.net = "fail"
    THEN Raises("requests.ConnectionError", <<"connection failed">>)
    ELSE IF resp.status_code # 200
    THEN APIError(<<"Upload failed: ", resp.body.text>>, resp.status_code, resp)
    ELSE IF JsonDecodes(resp)
    THEN Construct("Content", JsonValue(resp), bld.pydantic)
    ELSE IF bld.requests_json = "RequestException"
    THEN Raises("requests.JSONDecodeError", <<"Expecting value">>)
    ELSE Raises("json.JSONDecodeError", <<"Expecting value">>)

\* (variant: upload_file without its check of the path)
PathExistsUnchecked(files, file_path) == TRUE

\* os.path.exists(file_path)
PathExists(files, file_path) == file_path \in files

\* upload_file(file_path, metadata) for a path that does not exist
upload_file_missing(file_path) ==
    Raises("FileNotFoundError", <<"File not found: ", file_path>>)

\* (variant: the request is sent again after the first attempt)
SendsWithRetry(req) == <<req, req>>

\* the requests a method sends: one call of self.session.request (or of
\* requests.post), no loop around it
Sends(req) == <<req>>

\* the methods class HaiBlockClient defines
ClientMethods ==
    {"upload_file", "get_content", "list_content", "transform_content",
     "submit_to_model", "get_submission", "list_submissions", "get_analytics",
     "delete_content"}

\* client.<name>(...) for a name the class may not define
GetAttr(name) ==
    IF name \in ClientMethods THEN Returns(NoValue)
    ELSE Raises("AttributeError",
                <<"'HaiBlockClient' object has no attribute ", name>>)

(***************************************************************************)
(* Inputs                                                                  *)
(***************************************************************************)
\* os.environ: the two variables __init__ reads, None when unset
Environs ==
    [HAIBLOCK_API_URL : {None, "", "https://env.haiblock.com"},
     HAIBLOCK_AUTH_TOKEN : {None, "", "env-token"}]

\* the installed dependencies, within what setup.py's install_requires allows
Builds == [requests_json : {"RequestException", "ValueError"}, pydantic : {1, 2}]

\* the files that exist
Files == {"sample-company-info.txt"}

\* arguments of the constructor
ApiUrlArgs == {None, "", "https://api.test.haiblock.com"}

AuthTokenArgs == {None, "", "test-token"}

\* arguments of the methods
ContentIds == {"content-1"}

SubmissionIds == {"submission-123"}

Providers == {<<>>, <<"bedrock">>, <<"openai">>}

Limits == {<<>>, <<10>>}

Offsets == {<<>>, <<5>>}

ContentIdFilters == {None, "", "content-1"}

FilePaths == {"sample-company-info.txt", "missing.txt"}

Metadatas == {None, "{}", "{source:example}"}

NoArgs ==
    [api_url |-> None, auth_token |-> None, content_id |-> None,
     provider |-> <<>>, submission_id |-> None, limit |-> <<>>,
     offset |-> <<>>, file_path |-> None, metadata |-> None]

(***************************************************************************)
(* State                                                                   *)
(*   environ  the process environment                                      *)
(*   build    the versions of requests and pydantic installed              *)
(*   fs       the paths that exist                                         *)
(*   client   the HaiBlockClient object the caller holds                   *)
(*   call     the call in hand: the method, its arguments, the requests    *)
(*            it sent, the server's answer and its outcome                 *)
(*   prev     an earlier call the caller has kept the record of            *)
(***************************************************************************)
Idle ==
    [pc |-> "idle", op |-> "", args |-> NoArgs, sent |-> <<>>,
     resp |-> NoResponse, outcome |-> Returns(NoValue)]

Done(op, args, sent, resp, outcome) ==
    [pc |-> "done", op |-> op, args |-> args, sent |-> sent, resp |-> resp,
     outcome |-> outcome]

Init ==
    /\ environ \in Environs
    /\ build \in Builds
    /\ fs = Files
    /\ client = NoClient
    /\ call = Idle
    /\ prev = Idle

\* client = HaiBlockClient(api_url, auth_token)
NewClient(api_url, auth_token) ==
    /\ call.pc = "idle"
    /\ LET args == [NoArgs EXCEPT !.api_url = api_url, !.auth_token = auth_token] IN
       IF InitRaises(environ, auth_token)
       THEN /\ call' = Done("__init__", args, <<>>, NoResponse,
                            Raises("AuthenticationError", <<"Auth token is required">>))
            /\ UNCHANGED client
       ELSE /\ call' = Done("__init__", args, <<>>, NoResponse, Returns(NoValue))
            /\ client' = InitClient(environ, api_url, auth_token)
    /\ UNCHANGED <<environ, build, fs, prev>>

\* a method of the client is called; answers are the responses the server
\* may give to its request
Ready == client.state = "ready" /\ call.pc = "idle"

\* client.upload_file(file_path, metadata)
UploadFile(file_path, metadata, answers) ==
    /\ Ready
    /\ LET args == [NoArgs EXCEPT !.file_path = file_path, !.metadata = metadata] IN
       IF ~PathExists(fs, file_path)
       THEN /\ call' = Done("upload_file", args, <<>>, NoResponse,
                            upload_file_missing(file_path))
            /\ UNCHANGED client
       ELSE /\ \E resp \in answers :
                 call' = Done("upload_file", args,
                              Sends(upload_file_request(client, metadata)), resp,
                              upload_file(client, build, resp))
            /\ client' = upload_file_session(client)
    /\ UNCHANGED <<environ, build, fs, prev>>

\* client.get_content(content_id)
GetContent(content_id, answers) ==
    /\ Ready
    /\ \E resp \in answers :
         call' = Done("get_content", [NoArgs EXCEPT !.content_id = content_id],
                      Sends(SessionRequest(client, "GET",
                                       get_content_endpoint(content_id), NoParams)),
                      resp, get_content(client, build, content_id, resp))
    /\ UNCHANGED <<environ, build, fs, client, prev>>

\* client.list_content(limit, offset)
ListContent(limit, offset, answers) ==
    /\ Ready
    /\ \E resp \in answers :
         call' = Done("list_content",
                      [NoArgs EXCEPT !.limit = limit, !.offset = offset],
                      Sends(SessionRequest(client, "GET", list_content_endpoint,
                                       list_content_params(limit, offset))),
                      resp, list_content(client, build, resp))
    /\ UNCHANGED <<environ, build, fs, client, prev>>

\* client.transform_content(content_id)
TransformContent(content_id, answers) ==
    /\ Ready
    /\ \E resp \in answers :
         call' = Done("transform_content",
                      [NoArgs EXCEPT !.content_id = content_id],
                      Sends(SessionRequest(client, "POST",
                                       transform_content_endpoint(content_id),
                                       NoParams)),
                      resp, transform_content(client, build, content_id, resp))
    /\ UNCHANGED <<environ, build, fs, client, prev>>

\* client.submit_to_model(content_id, provider)
SubmitToModel(content_id, provider, answers) ==
    /\ Ready
    /\ \E resp \in answers :
         call' = Done("submit_to_model",
                      [NoArgs EXCEPT !.content_id = content_id,
                                     !.provider = provider],
                      Sends(SessionRequest(client, "POST",
                                       submit_to_model_endpoint(content_id, provider),
                                       NoParams)),
                      resp,
                      submit_to_model(client, build, content_id, provider, resp))
    /\ UNCHANGED <<environ, build, fs, client, prev>>

\* client.submit_to_bedrock(content_id), as tests/test_client.py and
\* examples/basic_usage.py call it: the class defines no such method
SubmitToBedrock(content_id) ==
    /\ Ready
    /\ call' = Done("submit_to_bedrock",
                    [NoArgs EXCEPT !.content_id = content_id],
                    <<>>, NoResponse, GetAttr("submit_to_bedrock"))
    /\ UNCHANGED <<environ, build, fs, client, prev>>

\* client.get_submission(submission_id)
GetSubmission(submission_id, answers) ==
    /\ Ready
    /\ \E resp \in answers :
         call' = Done("get_submission",
                      [NoArgs EXCEPT !.submission_id = submission_id],
                      Sends(SessionRequest(client, "GET",
                                       get_submission_endpoint(submission_id),
                                       NoParams)),
                      resp, get_submission(client, build, submission_id, resp))
    /\ UNCHANGED <<environ, build, fs, client, prev>>

\* client.list_submissions(content_id, limit, offset)
ListSubmissions(content_id, limit, offset, answers) ==
    /\ Ready
    /\ \E resp \in answers :
         call' = Done("list_submissions",
                      [NoArgs EXCEPT !.content_id = content_id,
                                     !.limit = limit, !.offset = offset],
                      Sends(SessionRequest(client, "GET", list_submissions_endpoint,
                            list_submissions_params(content_id, limit, offset))),
                      resp, list_submissions(client, build, resp))
    /\ UNCHANGED <<environ, build, fs, client, prev>>

\* client.get_analytics()
GetAnalytics(answers) ==
    /\ Ready
    /\ \E resp \in answers :
         call' = Done("get_analytics", NoArgs,
                      Sends(SessionRequest(client, "GET", get_analytics_endpoint,
                                       NoParams)),
                      resp, get_analytics(client, build, resp))
    /\ UNCHANGED <<environ, build, fs, client, prev>>

\* client.delete_content(content_id)
DeleteContent(content_id, answers) ==
    /\ Ready
    /\ \E resp \in answers :
         call' = Done("delete_content",
                      [NoArgs EXCEPT !.content_id = content_id],
                      Sends(SessionRequest(client, "DELETE",
                                       delete_content_endpoint(content_id),
                                       NoParams)),
                      resp, delete_content(client, build, content_id, resp))
    /\ UNCHANGED <<environ, build, fs, client, prev>>

\* the call has returned or raised; the caller goes on to its next statement
CallerProceeds ==
    /\ call.pc = "done"
    /\ call' = Idle
    /\ UNCHANGED <<environ, build, fs, client, prev>>

\* every method is called with every argument, and the server answers with
\* any of the responses
Next ==
    \/ \E u \in ApiUrlArgs, t \in AuthTokenArgs : NewClient(u, t)
    \/ \E f \in FilePaths, m \in Metadatas : UploadFile(f, m, Responses)
    \/ \E id \in ContentIds : GetContent(id, Responses)
    \/ \E l \in Limits, o \in Offsets : ListContent(l, o, Responses)
    \/ \E id \in ContentIds : TransformContent(id, Responses)
    \/ \E id \in ContentIds, p \in Providers : SubmitToModel(id, p, Responses)
    \/ \E id \in ContentIds : SubmitToBedrock(id)
    \/ \E id \in SubmissionIds : GetSubmission(id, Responses)
    \/ \E id \in ContentIdFilters, l \in Limits, o \in Offsets :
          ListSubmissions(id, l, o, Responses)
    \/ GetAnalytics(Responses)
    \/ \E id \in ContentIds : DeleteContent(id, Responses)
    \/ CallerProceeds

Spec == Init /\ [][Next]_vars

\* ---------------------------------------------------------------------
\* A caller that makes several calls on ONE client and keeps results to
\* compare them with later ones, as examples/content_management.py does
\* (content = upload_file(...), later updated_content = get_content(...)).
\* The record of the last call stays where it is until the next call
\* replaces it; prev is a result the caller has kept.

\* the answers the service gives in such a session
HistoryResponses ==
    {Response(200, ObjectBody(ContentWire("uploaded"))),
     Response(200, ObjectBody(SubmissionWire("pending"))),
     Response(200, ObjectBody(TransformFailedWire)),
     Response(200, ObjectBody(EmptyObj)),
     Response(200, TextBody("try again later")),
     Response(401, EmptyBody),
     Response(404, EmptyBody),
     Response(500, TextBody("Internal Server Error")),
     NetworkFailure}

\* the caller goes on to its next statement without keeping the result
CallerKeeps ==
    /\ call.pc = "done"
    /\ call' = [call EXCEPT !.pc = "idle"]
    /\ UNCHANGED <<environ, build, fs, client, prev>>

\* the caller keeps the result of the call (or the exception it caught)
CallerRemembers ==
    /\ call.pc = "done"
    /\ call.op \in ClientMethods
    /\ prev' = call
    /\ call' = [call EXCEPT !.pc = "idle"]
    /\ UNCHANGED <<environ, build, fs, client>>

InitHistory ==
    /\ environ = [HAIBLOCK_API_URL |-> None, HAIBLOCK_AUTH_TOKEN |-> None]
    /\ build \in Builds
    /\ fs = Files
    /\ client = NoClient
    /\ call = Idle
    /\ prev = Idle

NextHistory ==
    \/ NewClient(None, "test-token")
    \/ \E f \in FilePaths : UploadFile(f, None, HistoryResponses)
    \/ \E id \in ContentIds : GetContent(id, HistoryResponses)
    \/ ListContent(<<>>, <<>>, HistoryResponses)
    \/ \E id \in ContentIds : TransformContent(id, HistoryResponses)
    \/ \E id \in ContentIds : SubmitToModel(id, <<"bedrock">>, HistoryResponses)
    \/ \E id \in ContentIds : SubmitToBedrock(id)
    \/ \E id \in SubmissionIds : GetSubmission(id, HistoryResponses)
    \/ ListSubmissions(None, <<>>, <<>>, HistoryResponses)
    \/ GetAnalytics(HistoryResponses)
    \/ \E id \in ContentIds : DeleteContent(id, HistoryResponses)
    \/ CallerKeeps
    \/ CallerRemembers

SpecHistory == InitHistory /\ [][NextHistory]_vars

(***************************************************************************)
(* Properties                                                              *)
(***************************************************************************)
\* a call of a facade method is over and the server answered it
Answered == call.pc = "done" /\ call.resp.net = "ok"

\* the call went through _make_request (every method but upload_file)
ViaTransport ==
    call.pc = "done" /\ call.sent # <<>> /\ call.sent[1].via = "session"

Is2xx(status) == status >= 200 /\ status < 300

\* C1: whatever the facade method, a 401 answer makes it raise
\* AuthenticationError.  Fails: upload_file raises APIError(401).
C1_Unauthorized ==
    (Answered /\ call.op \in ClientMethods /\ call.resp.status_code = 401)
        => (call.outcome.kind = "raise" /\ call.outcome.exc = "AuthenticationError")

\* C2: a client built with no auth_token argument and no HAIBLOCK_AUTH_TOKEN
\* variable raises AuthenticationError, and no request was sent.
C2_NoTokenFails ==
    (/\ call.pc = "done" /\ call.op = "__init__"
     /\ call.args.auth_token = None /\ environ.HAIBLOCK_AUTH_TOKEN = None)
        => (/\ call.outcome.kind = "raise"
            /\ call.outcome.exc = "AuthenticationError"
            /\ call.sent = <<>> /\ call.resp = NoResponse)

C2_Witness ==
    /\ call.pc = "done" /\ call.op = "__init__"
    /\ call.args.auth_token = None /\ environ.HAIBLOCK_AUTH_TOKEN = None
    /\ call.args.api_url # None
    /\ call.outcome.exc = "AuthenticationError"

\* C3: a 500 answer makes the method raise APIError with status_code 500 and
\* a message that includes the response body.  Fails: the message
\* _make_request builds is str(HTTPError), which has the status, the reason
\* phrase and the URL, not the body.
C3_ServerError ==
    (Answered /\ call.op \in ClientMethods /\ call.resp.status_code = 500)
        => (/\ call.outcome.exc = "APIError"
            /\ call.outcome.status_code = 500
            /\ Includes(call.outcome.msg, call.resp.body.text))

\* C4: for every status outside 2xx other than 401 and 404, _make_request
\* raises APIError carrying the status code and the response, and returns no
\* decoded value.  Fails: raise_for_status() lets 1xx and 3xx through.
C4_NonSuccessRaises ==
    (/\ ViaTransport /\ Answered
     /\ ~Is2xx(call.resp.status_code)
     /\ call.resp.status_code \notin {401, 404})
        => (/\ call.outcome.kind = "raise"
            /\ call.outcome.exc = "APIError"
            /\ call.outcome.status_code = call.resp.status_code
            /\ call.outcome.response = call.resp)

\* C5: a 404 answer to a method that goes through _make_request (get_content
\* and all the others but upload_file) makes it raise ContentNotFoundError.
C5_NotFound ==
    (ViaTransport /\ Answered /\ call.resp.status_code = 404)
        => (call.outcome.kind = "raise" /\ call.outcome.exc = "ContentNotFoundError")

C5_Witness ==
    /\ ViaTransport /\ Answered /\ call.op = "get_content"
    /\ call.resp.status_code = 404
    /\ call.outcome.exc = "ContentNotFoundError"

\* C6: when no response arrives, every facade method, upload_file included,
\* raises APIError with no status code.  Fails: upload_file catches nothing,
\* requests' ConnectionError reaches the caller.
C6_NetworkFailure ==
    (call.pc = "done" /\ call.op \in ClientMethods /\ call.resp.net = "fail")
        => (/\ call.outcome.kind = "raise"
            /\ call.outcome.exc = "APIError"
            /\ call.outcome.status_code = NoStatus)

\* the status values a model class admits
StatusesOf(cls) ==
    CASE cls = "Content" -> ContentStatuses
      [] cls = "Submission" -> SubmissionStatuses

\* C7: no Content or Submission that a method returns, alone or in a list,
\* carries a status outside the values listed for its class.  Fails: the
\* field is declared str and takes any string.
C7_ClosedStatus ==
    (/\ call.pc = "done" /\ call.outcome.kind = "return"
     /\ call.outcome.value.cls \in {"Content", "Submission"})
        => LET v == call.outcome.value IN
           /\ v.t = "model" => v.data.status.s \in StatusesOf(v.cls)
           /\ v.t = "models" =>
                \A i \in DOMAIN v.list : v.list[i].status.s \in StatusesOf(v.cls)

\* C8: delete_content returns True whenever the answer is 2xx, whatever the
\* body.  Fails: _make_request calls response.json() on every answer.
C8_DeleteIgnoresBody ==
    (Answered /\ call.op = "delete_content" /\ Is2xx(call.resp.status_code))
        => call.outcome = Returns(BoolValue(TRUE))

\* C9: submit_to_bedrock(content_id) sends the one request
\* POST /content/{id}/submit/bedrock and has the outcome of
\* submit_to_model(content_id, "bedrock").  Fails: HaiBlockClient has no
\* such attribute.
C9_BedrockAlias ==
    (call.pc = "done" /\ call.op = "submit_to_bedrock")
        => (/\ call.sent = <<SessionRequest(client, "POST",
                    submit_to_model_endpoint(call.args.content_id, <<"bedrock">>),
                    NoParams)>>
            /\ call.outcome = submit_to_model(client, build, call.args.content_id,
                                              <<"bedrock">>, call.resp))

\* C10: a 2xx answer whose body is not JSON makes the method raise
\* ValidationError.  Fails: no code path raises that class; the caller gets
\* APIError, or the JSON decoder's own exception.
C10_UndecodableBody ==
    (/\ Answered /\ call.op \in ClientMethods \ {"delete_content"}
     /\ Is2xx(call.resp.status_code)
     /\ call.resp.body.kind \in {"empty", "text"})
        => (call.outcome.kind = "raise" /\ call.outcome.exc = "ValidationError")

\* C11: upload_file with a path that does not exist raises FileNotFoundError
\* and the call sends no request, so no answer is received.
C11_MissingFile ==
    (call.pc = "done" /\ call.op = "upload_file" /\ call.args.file_path \notin fs)
        => (/\ call.outcome.kind = "raise"
            /\ call.outcome.exc = "FileNotFoundError"
            /\ call.sent = <<>>
            /\ call.resp = NoResponse)

C11_Witness ==
    /\ call.pc = "done" /\ call.op = "upload_file"
    /\ call.args.file_path = "missing.txt" /\ "missing.txt" \notin fs
    /\ call.outcome.exc = "FileNotFoundError"
    /\ call.sent = <<>>

\* C12: list_content and list_submissions, on a 2xx answer whose body is a
\* JSON object without an "items" key, return the empty list; when "items" is
\* there and a list is returned, it has one entity per item, in the order of
\* the items, each with the values of its item.
C12_ListDecoding ==
    (/\ Answered /\ call.op \in {"list_content", "list_submissions"}
     /\ Is2xx(call.resp.status_code) /\ call.resp.body.kind = "object")
        => LET data == call.resp.body.data
               v == call.outcome.value
           IN  /\ "items" \notin DOMAIN data =>
                    /\ call.outcome.kind = "return"
                    /\ v.t = "models" /\ v.list = <<>>
               /\ ("items" \in DOMAIN data /\ call.outcome.kind = "return") =>
                    /\ v.t = "models"
                    /\ Len(v.list) = Len(data["items"].items)
                    /\ \A i \in DOMAIN v.list :
                         \A f \in DOMAIN data["items"].items[i] :
                            /\ f \in DOMAIN v.list[i]
                            /\ v.list[i][f] = data["items"].items[i][f]

C12_Witness ==
    /\ Answered /\ call.op = "list_content" /\ call.resp.status_code = 200
    /\ call.resp.body = ObjectBody(EmptyObj)
    /\ call.outcome = Returns(ModelsValue("Content", <<>>))

\* the body of the answer is a JSON object that validates as a cls
Decodable(cls, resp, pyd) ==
    resp.body.kind = "object" /\ ModelValid(cls, resp.body.data, pyd)

\* the body says the transformation failed: success false, error filled in
SaysFailed(resp) ==
    /\ resp.body.kind = "object"
    /\ {"success", "error"} \subseteq DOMAIN resp.body.data
    /\ resp.body.data.success = JBool("false")
    /\ resp.body.data.error.t = "str"

\* C13 (as stated): transform_content returns a TransformationResult, without
\* raising, on a 2xx answer whose body has success false and error filled in,
\* and it raises only when the answer is not 2xx or there is no answer.
\* Fails: a 2xx answer whose body is not a TransformationResult raises too.
C13_RaisesOnlyOnTransport ==
    (call.pc = "done" /\ call.op = "transform_content")
        => /\ (Answered /\ Is2xx(call.resp.status_code) /\ SaysFailed(call.resp))
                => (/\ call.outcome.kind = "return"
                    /\ call.outcome.value.cls = "TransformationResult")
           /\ call.outcome.kind = "raise"
                => (call.resp.net = "fail" \/ ~Is2xx(call.resp.status_code))

\* C13 (amended): transform_content returns a TransformationResult, without
\* raising, on a 2xx answer whose body decodes as one, also when it has
\* success false and error filled in (both are kept as received); it raises
\* only when the answer is not 2xx, there is no answer, or the body of the
\* answer does not decode as a TransformationResult.
C13_FailureIsAResult ==
    (call.pc = "done" /\ call.op = "transform_content")
        => /\ (/\ Answered /\ Is2xx(call.resp.status_code)
               /\ Decodable("TransformationResult", call.resp, build.pydantic))
                => (/\ call.outcome.kind = "return"
                    /\ call.outcome.value.cls = "TransformationResult"
                    /\ SaysFailed(call.resp) =>
                         /\ call.outcome.value.data.success = JBool("false")
                         /\ call.outcome.value.data.error
                               = call.resp.body.data.error)
           /\ call.outcome.kind = "raise"
                => \/ call.resp.net = "fail"
                   \/ ~Is2xx(call.resp.status_code)
                   \/ ~Decodable("TransformationResult", call.resp, build.pydantic)

C13_Witness ==
    /\ Answered /\ call.op = "transform_content" /\ call.resp.status_code = 200
    /\ SaysFailed(call.resp)
    /\ call.outcome.kind = "return"
    /\ call.outcome.value.data.success = JBool("false")
    /\ call.outcome.value.data.error = JStr("boom")

C15_PrecedenceOfGiven ==
    (call.pc = "done" /\ call.op = "__init__")
        => LET a == call.args
               url == IF a.api_url # None THEN a.api_url
                      ELSE IF environ.HAIBLOCK_API_URL # None
                      THEN environ.HAIBLOCK_API_URL
                      ELSE "https://api.haiblock.com"
               token == IF a.auth_token # None THEN a.auth_token
                        ELSE environ.HAIBLOCK_AUTH_TOKEN
           IN  IF token = None
               THEN call.outcome.exc = "AuthenticationError"
               ELSE /\ call.outcome.kind = "return"
                    /\ client.api_url = url
                    /\ client.auth_token = token

\* C15 (amended): the same with "given" meaning given and not empty: the URL
\* is the argument when it is not empty, else the variable's value when it is
\* set (the empty string included), else the default; the token is the
\* argument when it is not empty, else the variable's value when that is not
\* empty, else the construction fails.
C15_PrecedenceOfNonEmpty ==
    (call.pc = "done" /\ call.op = "__init__")
        => LET a == call.args
               url == IF a.api_url \notin {None, ""} THEN a.api_url
                      ELSE IF environ.HAIBLOCK_API_URL # None
                      THEN environ.HAIBLOCK_API_URL
                      ELSE "https://api.haiblock.com"
               token == IF a.auth_token \notin {None, ""} THEN a.auth_token
                        ELSE environ.HAIBLOCK_AUTH_TOKEN
           IN  IF token \in {None, ""}
               THEN /\ call.outcome.kind = "raise"
                    /\ call.outcome.exc = "AuthenticationError"
               ELSE /\ call.outcome.kind = "return"
                    /\ client.state = "ready"
                    /\ client.api_url = url
                    /\ client.auth_token = token
                    /\ client.headers["Authorization"] = <<"Bearer ", token>>

C15_Witness ==
    /\ call.pc = "done" /\ call.op = "__init__"
    /\ call.args.auth_token = "test-token"
    /\ environ.HAIBLOCK_AUTH_TOKEN = "env-token"
    /\ call.args.api_url = None
    /\ environ.HAIBLOCK_API_URL = "https://env.haiblock.com"
    /\ client.auth_token = "test-token"
    /\ client.api_url = "https://env.haiblock.com"

\* the model class a method that returns one entity decodes into
ClassOf(op) ==
    CASE op = "get_content" -> "Content"
      [] op = "get_submission" -> "Submission"
      [] op = "transform_content" -> "TransformationResult"
      [] op = "get_analytics" -> "AnalyticsData"

\* a JSON object matches the schema of cls: the required keys are there and
\* every key of the schema has a value of the declared JSON type (or null,
\* for an optional one)
MatchesSchema(cls, obj) ==
    /\ Required(cls) \subseteq DOMAIN obj
    /\ \A f \in DOMAIN obj \cap DOMAIN Fields(cls) :
          \/ obj[f].t = Fields(cls)[f]
          \/ f \notin Required(cls) /\ obj[f].t = "null"

\* C16: when a get method receives a 2xx answer whose body matches the schema
\* of its entity, it returns the entity, and every field present in the body
\* has the body's value, success_rate included whatever the counts are.
C16_DecodingPreservesWire ==
    (/\ Answered
     /\ call.op \in {"get_content", "get_submission", "transform_content",
                     "get_analytics"}
     /\ Is2xx(call.resp.status_code)
     /\ call.resp.body.kind = "object"
     /\ MatchesSchema(ClassOf(call.op), call.resp.body.data))
        => /\ call.outcome.kind = "return"
           /\ call.outcome.value.t = "model"
           /\ call.outcome.value.cls = ClassOf(call.op)
           /\ \A f \in DOMAIN call.resp.body.data :
                 f \in DOMAIN Fields(ClassOf(call.op))
                    => call.outcome.value.data[f] = call.resp.body.data[f]

\* an AnalyticsData came back whose success_rate (0.5) is not
\* successful_submissions / total_submissions (8 / 10)
C16_Witness ==
    /\ Answered /\ call.op = "get_analytics" /\ call.resp.status_code = 200
    /\ call.outcome.kind = "return"
    /\ call.outcome.value.data.success_rate = JFloat("0.5", 500)
    /\ call.outcome.value.data.successful_submissions.n * 1000
          # 500 * call.outcome.value.data.total_submissions.n

\* C17: submit_to_model sends POST {api_url}/content/{id}/submit/{p}, with p
\* the provider argument, or "bedrock" when the caller gives none; a 2xx
\* answer carrying a Submission document is returned as a Submission, and
\* nothing but a Submission is ever returned.
C17_SubmitRoute ==
    (call.pc = "done" /\ call.op = "submit_to_model")
        => LET p == IF call.args.provider = <<>> THEN "bedrock"
                    ELSE call.args.provider[1]
           IN  /\ Len(call.sent) = 1
               /\ call.sent[1].method = "POST"
               /\ call.sent[1].url =
                     <<client.api_url, "/", "content", "/",
                       call.args.content_id, "/", "submit", "/", p>>
               /\ (/\ Answered /\ Is2xx(call.resp.status_code)
                   /\ call.resp.body.kind = "object"
                   /\ MatchesSchema("Submission", call.resp.body.data))
                     => (/\ call.outcome.kind = "return"
                         /\ call.outcome.value.t = "model"
                         /\ call.outcome.value.data.id = call.resp.body.data.id)
               /\ call.outcome.kind = "return"
                     => call.outcome.value.cls = "Submission"

C17_Witness ==
    /\ call.pc = "done" /\ call.op = "submit_to_model"
    /\ call.args.provider = <<>>
    /\ call.sent[1].url[Len(call.sent[1].url)] = "bedrock"
    /\ call.resp.status_code = 200
    /\ call.outcome.kind = "return"
    /\ call.outcome.value.cls = "Submission"

\* C18: every request of a method other than upload_file carries
\* Authorization: Bearer <token> and Content-Type: application/json; every
\* request of upload_file carries the same Authorization header, no
\* Content-Type header of the client's, and a multipart body.
C18_RequestHeaders ==
    (call.pc = "done" /\ call.op \in ClientMethods)
        => \A i \in DOMAIN call.sent :
              LET h == call.sent[i].headers IN
              /\ "Authorization" \in DOMAIN h
              /\ h["Authorization"] = <<"Bearer ", client.auth_token>>
              /\ IF call.op = "upload_file"
                 THEN "Content-Type" \notin DOMAIN h /\ call.sent[i].multipart
                 ELSE /\ "Content-Type" \in DOMAIN h
                      /\ h["Content-Type"] = <<"application/json">>
                      /\ ~call.sent[i].multipart

C18_Witness ==
    /\ call.pc = "done" /\ call.op = "upload_file" /\ Len(call.sent) = 1
    /\ call.sent[1].headers["Authorization"] = <<"Bearer ", "env-token">>
    /\ "Content-Type" \notin DOMAIN call.sent[1].headers

\* C19: no call of a facade method changes the client's base URL, token or
\* session headers, whether the call returns or raises.
C19_ConfigurationFixed ==
    [][(call'.pc = "done" /\ call'.op # "__init__")
          => (/\ client'.api_url = client.api_url
              /\ client'.auth_token = client.auth_token
              /\ client'.headers = client.headers)]_vars

C19_Witness ==
    /\ call.pc = "done" /\ call.op = "upload_file" /\ Len(call.sent) = 1
    /\ call.outcome.kind = "raise"
    /\ client.headers["Content-Type"] = <<"application/json">>
    /\ client.headers["Authorization"] = <<"Bearer ", client.auth_token>>

\* C20: calls are independent. A call of a facade method with the same
\* arguments, answered by the service in the same way as an earlier call
\* on the same client, sends the same request and has the same outcome
\* (same return value, or same exception with the same message and status),
\* whatever calls were made in between and whether or not they failed.
C20_CallsIndependent ==
    (/\ call.pc = "done" /\ prev.pc = "done"
     /\ call.op = prev.op /\ call.args = prev.args /\ call.resp = prev.resp)
        => (call.outcome = prev.outcome /\ call.sent = prev.sent)

C20_Witness ==
    /\ call.pc = "done" /\ prev.pc = "done"
    /\ call.op = "get_content" /\ prev.op = "get_content"
    /\ call.args = prev.args /\ call.resp = prev.resp
    /\ call.resp.status_code = 200
    /\ call.outcome.kind = "return"
    /\ call.outcome = prev.outcome

\* C21: the one request of list_content carries exactly the query
\* parameters limit and offset, with the caller's values or the defaults 50
\* and 0; the one request of list_submissions carries limit and offset in
\* the same way, and carries content_id, with the caller's value, exactly
\* when the caller gave a content id that is not empty.
C21_QueryParameters ==
    (call.pc = "done" /\ call.op \in {"list_content", "list_submissions"})
        => /\ Len(call.sent) = 1
           /\ LET p == call.sent[1].params
                  a == call.args IN
              /\ {"limit", "offset"} \subseteq DOMAIN p
              /\ p.limit = (IF a.limit = <<>> THEN 50 ELSE a.limit[1])
              /\ p.offset = (IF a.offset = <<>> THEN 0 ELSE a.offset[1])
              /\ DOMAIN p \subseteq {"limit", "offset", "content_id"}
              /\ IF call.op = "list_submissions" /\ a.content_id \notin {None, ""}
                 THEN "content_id" \in DOMAIN p /\ p.content_id = a.content_id
                 ELSE "content_id" \notin DOMAIN p

C21_Witness ==
    /\ call.pc = "done" /\ call.op = "list_submissions"
    /\ call.args.content_id = "content-1"
    /\ call.args.limit = <<>> /\ call.args.offset = <<5>>
    /\ Len(call.sent) = 1
    /\ call.sent[1].params.content_id = "content-1"
    /\ call.sent[1].params.limit = 50
    /\ call.sent[1].params.offset = 5

\* C22: when upload_file gets a response, it returns only if the status is
\* exactly 200, and what it returns is a Content; for every other status,
\* 201 and the other 2xx statuses included, it raises APIError with that
\* status code and a message that contains the text of the response.
C22_UploadOnly200 ==
    (call.pc = "done" /\ call.op = "upload_file" /\ call.resp.net = "ok")
        => /\ call.outcome.kind = "return"
                => (/\ call.resp.status_code = 200
                    /\ call.outcome.value.t = "model"
                    /\ call.outcome.value.cls = "Content")
           /\ call.resp.status_code # 200
                => (/\ call.outcome.kind = "raise"
                    /\ call.outcome.exc = "APIError"
                    /\ call.outcome.status_code = call.resp.status_code
                    /\ Includes(call.outcome.msg, call.resp.body.text))

C22_Witness ==
    /\ call.pc = "done" /\ call.op = "upload_file"
    /\ call.resp.net = "ok" /\ call.resp.status_code = 201
    /\ call.resp.body.kind = "object"
    /\ ModelValid("Content", call.resp.body.data, build.pydantic)
    /\ call.outcome.exc = "APIError"
    /\ call.outcome.status_code = 201

====
